---- MODULE Spec2Model ----
(***************************************************************************)
(* Model of src/find.c: the scalar matcher find, the vectorized matcher    *)
(* vect_find, and the multithreaded search thread_find with its 8 worker   *)
(* threads (scalar_thread_function / vect_thread_function) and the         *)
(* watchdog thread watch_nb_find.                                          *)
(*                                                                         *)
(* Arrays are functions over 0 .. len-1 (C indices).  A growable index     *)
(* buffer (malloc/realloc) is a sequence.                                  *)
(*                                                                         *)
(* Atomicity.  The program only builds for x86 with AVX (immintrin.h);     *)
(* there an aligned int or bool load/store is a single coherent access,    *)
(* so a read of stop_threads or nb_find_thread[t] yields the value the     *)
(* variable has when the read happens.  Every action holds at most one     *)
(* access to a variable another running thread writes; accesses to the     *)
(* immutable array and to a thread's private locals are folded into the    *)
(* neighbouring step.  An array read outside 0 .. len-1 is undefined       *)
(* behaviour and yields any value of Vals.                                 *)
(***************************************************************************)
EXTENDS Integers, Sequences, FiniteSets, TLC

\* src/find.c:2
NB_THREADS == 8

\* ------------------------------------------------------------------ bounds
\* length of the array U handed to the searches
ULen == 9
\* largest i_end of a thread_find call
MaxEnd == 3
\* largest threshold k of a thread_find call
MaxK == 2
\* number of thread_find calls in one run of the process
MaxCalls == 2

Threads == 0 .. (NB_THREADS - 1)

\* element values: the target and one other value
Vals == {1, 5}
Targets == {5}
Starts == {0, 1}
Ends == 0 .. MaxEnd
Steps == {1, 8, 16}
Vers == {0, 1, 2}
Ks == (-1) .. MaxK

\* U[i] is 5 exactly at the positions of P
MakeU(P) == [i \in 0 .. (ULen - 1) |-> IF i \in P THEN 5 ELSE 1]
Arrays == {MakeU(P) : P \in SUBSET (0 .. MaxEnd)}

\* ------------------------------------------------------------ C arithmetic
Abs(x) == IF x < 0 THEN -x ELSE x

\* C integer division truncates toward zero
CDiv(a, b) ==
    IF (a >= 0) = (b > 0) THEN Abs(a) \div Abs(b) ELSE -(Abs(a) \div Abs(b))

\* C remainder has the sign of the dividend
CMod(a, b) == a - b * CDiv(a, b)

\* INT_MIN (its bits are the float -0.0) and INT_MAX
MinInt == (-2147483647) - 1
MaxInt == -(MinInt + 1)

\* a + b leaves the range of int
AddOverflows(a, b) ==
    \/ b > 0 /\ a > MaxInt - b
    \/ b < 0 /\ a < MinInt - b

\* the int an x86 add leaves in the register: a + b modulo 2^32
Add32(a, b) ==
    IF b > 0 /\ a > MaxInt - b THEN ((a + MinInt) + b) + MinInt
    ELSE IF b < 0 /\ a < MinInt - b THEN (((a - MinInt) + b) + MaxInt) + 1
    ELSE a + b

\* t * m leaves the range of int, for t >= 0
MulOverflows(t, m) ==
    /\ t > 0
    /\ IF m >= 0
       THEN m > MaxInt \div t
       ELSE m < (-(MaxInt \div t)) - (IF MaxInt % t = t - 1 THEN 1 ELSE 0)

\* the int an x86 imul leaves in the register, for 0 <= t <= NB_THREADS:
\* t * m, modulo 2^32 (from the two 16-bit halves of m) when it overflows
Mul32(t, m) ==
    IF MulOverflows(t, m)
    THEN LET high == (t * CDiv(m, 65536)) % 65536
             low == t * CMod(m, 65536)
         IN  Add32((IF high >= 32768 THEN high - 65536 ELSE high) * 65536, low)
    ELSE t * m

\* ---------------------------------------------------- float comparison
\* _mm256_castsi256_ps reinterprets the 32 bits of an int as a float.
\* Magnitude is the float's exponent and mantissa, the low 31 bits of the
\* two's complement int; above 0x7F800000 = 2139095040 they encode a NaN.
Magnitude(x) == IF x >= 0 THEN x ELSE (x + 2147483647) + 1
IsNaN(x) == Magnitude(x) > 2139095040

\* one lane of _mm256_cmp_ps(a, b, _CMP_EQ_OS): ordered equality of floats
CmpEqOS(a, b) ==
    /\ ~IsNaN(a)
    /\ ~IsNaN(b)
    /\ \/ a = b
       \/ Magnitude(a) = 0 /\ Magnitude(b) = 0

\* _mm256_movemask_ps: bit b is the comparison result of lane b
RECURSIVE MoveMask(_, _, _)
MoveMask(lanes, v, b) ==
    IF b > 7 THEN 0
    ELSE (IF CmpEqOS(lanes[b], v) THEN 1 ELSE 0) + 2 * MoveMask(lanes, v, b + 1)

\* count_ones, lines 24-32, whose values fill count_ones_table
RECURSIVE count_ones(_)
count_ones(n) == IF n = 0 THEN 0 ELSE (n % 2) + count_ones(n \div 2)

\* number of low zero bits of a non-zero mask
RECURSIVE LowZeros(_)
LowZeros(mask) == IF mask % 2 = 1 THEN 0 ELSE 1 + LowZeros(mask \div 2)

RECURSIVE Pow2(_)
Pow2(n) == IF n = 0 THEN 1 ELSE 2 * Pow2(n - 1)

\* ------------------------------------------------------ sequence helpers
Range(s) == {s[n] : n \in 1 .. Len(s)}
Take(s, n) == SubSeq(s, 1, IF n < Len(s) THEN n ELSE Len(s))

RECURSIVE Sum(_, _)
Sum(f, n) == IF n < 0 THEN 0 ELSE f[n] + Sum(f, n - 1)

\* Concat that copies the buffers of the later workers first
RECURSIVE Concat_LastFirst(_, _, _)
Concat_LastFirst(bufs, counts, t) ==
    IF t >= NB_THREADS THEN << >>
    ELSE Concat_LastFirst(bufs, counts, t + 1) \o Take(bufs[t], counts[t])

\* the copy loop of thread_find, lines 289-293, from worker t on: the first
\* nb_find_thread[t] entries of each worker's buffer, in thread order
RECURSIVE Concat(_, _, _)
Concat(bufs, counts, t) ==
    IF t >= NB_THREADS THEN << >>
    ELSE Take(bufs[t], counts[t]) \o Concat(bufs, counts, t + 1)

\* ------------------------------------------------------- single-threaded
\* the loop of find, lines 76-81, from index i on
RECURSIVE find_loop(_, _, _, _, _, _)
find_loop(A, i, i_end, i_step, v, acc) ==
    IF i > i_end THEN acc
    ELSE find_loop(A, i + i_step, i_end, i_step, v,
                   IF A[i] = v THEN Append(acc, i) ELSE acc)

\* find: the indices written to *ind_val; the return value is their number
find(A, i_start, i_end, i_step, v) == find_loop(A, i_start, i_end, i_step, v, << >>)

\* the inner loop of a vector block, lines 107-113: the set bits of mask as
\* indices from j on, in increasing bit position
RECURSIVE BlockHits(_, _)
BlockHits(mask, j) ==
    IF mask = 0 THEN << >>
    ELSE (IF mask % 2 = 1 THEN << j >> ELSE << >>) \o BlockHits(mask \div 2, j + 1)

\* the block loop of vect_find, lines 103-115: the final i and the indices
RECURSIVE vect_blocks(_, _, _, _, _, _)
vect_blocks(A, i, i_end, i_step, v, acc) ==
    IF i + 8 < i_end
    THEN vect_blocks(A, i + i_step, i_end, i_step, v,
                     acc \o BlockHits(MoveMask([b \in 0 .. 7 |-> A[i + b]], v, 0), i))
    ELSE [i |-> i, acc |-> acc]

\* vect_find: ret is the return value, ind the indices written to *ind_val
vect_find(A, i_start, i_end, i_step, v) ==
    IF CMod(i_step, 8) # 0 THEN [ret |-> -1, ind |-> << >>]
    ELSE LET blocks == vect_blocks(A, i_start, i_end, i_step, v, << >>)
             ind == find_loop(A, blocks.i, i_end, 1, v, blocks.acc)
         IN  [ret |-> Len(ind), ind |-> ind]

\* ------------------------------------------------------ segment planning
\* Strides without the "+ 1": the last stride of the range is not counted
Strides_Short(i_start, i_end, i_step) == CDiv(i_end - i_start, i_step)

\* (i_end - i_start) / i_step + 1, the number of strides of the range
Strides(i_start, i_end, i_step) == CDiv(i_end - i_start, i_step) + 1

\* The products t * M and (t + 1) * M of lines 269-270 are int products.  One
\* that leaves the range of int is undefined; the imul of an x86 build leaves
\* the product modulo 2^32 (Mul32), a build with overflow traps aborts
\* (PlanTraps).
\* thread_data_array[t].i_start, line 269
SegStart(t, i_start, i_end, i_step) ==
    CDiv(Mul32(t, Strides(i_start, i_end, i_step)), NB_THREADS) * i_step + i_start

\* thread_data_array[t].i_end, line 270
SegEnd(t, i_start, i_end, i_step) ==
    CDiv(Mul32(t + 1, Strides(i_start, i_end, i_step)), NB_THREADS) * i_step
        + i_start - 1

\* thread_data_array[t], lines 269-271
Segment(t, i_start, i_end, i_step) ==
    [i_start |-> SegStart(t, i_start, i_end, i_step),
     i_end |-> SegEnd(t, i_start, i_end, i_step),
     i_step |-> i_step]

\* InvalidVer without the step test of case 1
InvalidVer_NoStepTest(ver, i_step) == ver \notin {0, 1}

\* the switch on ver and the step test of thread_find, lines 236-248
InvalidVer(ver, i_step) ==
    CASE ver = 0 -> FALSE
      [] ver = 1 -> CMod(i_step, 8) # 0
      [] OTHER -> TRUE

\* ----------------------------------------------------------------- state
VARIABLES
    U,                  \* the caller's array
    calls,              \* number of thread_find calls made so far
    arg,                \* parameters of the current thread_find call
    at_call,            \* globals and *ind_val as they were when it was called
    prev,               \* parameters and result of the previous call
    d_pc,               \* position of the thread running thread_find
    d_t,                \* its loop variable t
    nb_find,            \* its local nb_find
    ind_val,            \* the caller's *ind_val
    ret,                \* the value thread_find returned
    thread_data_array,  \* i_start, i_end, i_step handed to each worker
    stop_threads,       \* global, line 133
    nb_find_thread,     \* global, line 134
    U_threads,          \* global, line 135 (the empty function is NULL)
    val_threads,        \* global, line 136
    t_pc,               \* position of each worker thread
    t_i,                \* each worker's loop variable i
    t_mask,             \* each vector worker's mask
    t_j,                \* each vector worker's loop variable j
    ind_val_thread,     \* each worker's index buffer *ind_val_thread[t]
    w_pc,               \* position of the watchdog thread
    reads,              \* array indices the workers have read in this call
    res_find,           \* result of a single-threaded find
    res_vect            \* result of a single-threaded vect_find

globals == << stop_threads, nb_find_thread, U_threads, val_threads >>
workers == << t_pc, t_i, t_mask, t_j, ind_val_thread, reads >>
dispatch == << d_pc, d_t, nb_find, ind_val, ret, thread_data_array >>
caller == << U, calls, arg, at_call, prev >>
single == << res_find, res_vect >>
vars == << caller, dispatch, globals, workers, w_pc, single >>

Args == [i_start : Starts, i_end : Ends, i_step : Steps, val : Targets,
         k : Ks, ver : Vers]

NoArg == [i_start |-> 0, i_end |-> 0, i_step |-> 1, val |-> 0, k |-> -1, ver |-> 0]
NoData == [i_start |-> 0, i_end |-> 0, i_step |-> 0]
NoResult == [ret |-> 0, ind |-> << >>]
Zeros == [t \in Threads |-> 0]
Empties == [t \in Threads |-> << >>]
Idle == [t \in Threads |-> "none"]

Snapshot == [stop_threads |-> stop_threads, nb_find_thread |-> nb_find_thread,
             U_threads |-> U_threads, val_threads |-> val_threads,
             ind_val |-> ind_val]

Init ==
    /\ U \in Arrays
    /\ calls = 0
    /\ arg = NoArg
    /\ prev = [valid |-> FALSE, arg |-> NoArg, ret |-> 0, ind |-> << >>]
    /\ d_pc = "idle"
    /\ d_t = 0
    /\ nb_find = 0
    /\ ind_val = << >>
    /\ ret = 0
    /\ thread_data_array = [t \in Threads |-> NoData]
    /\ stop_threads = FALSE
    /\ nb_find_thread = Zeros
    /\ U_threads = << >>
    /\ val_threads = 0
    /\ t_pc = Idle
    /\ t_i = Zeros
    /\ t_mask = Zeros
    /\ t_j = Zeros
    /\ ind_val_thread = Empties
    /\ w_pc = "none"
    /\ reads = {}
    /\ at_call = Snapshot
    /\ res_find = NoResult
    /\ res_vect = NoResult

\* ------------------------------------------------------------ the caller
\* The process calls thread_find; a later call repeats the search, possibly
\* with another strategy.
Call ==
    /\ d_pc \in {"idle", "returned"}
    /\ calls < MaxCalls
    /\ \E a \in (IF calls = 0 THEN Args ELSE {[arg EXCEPT !.ver = v] : v \in Vers}) :
          arg' = a
    /\ calls' = calls + 1
    /\ at_call' = Snapshot
    /\ prev' = IF d_pc = "returned"
               THEN [valid |-> TRUE, arg |-> arg, ret |-> ret, ind |-> ind_val]
               ELSE prev
    /\ d_pc' = "check"
    /\ reads' = {}
    /\ UNCHANGED << U, d_t, nb_find, ind_val, ret, thread_data_array, globals,
                    t_pc, t_i, t_mask, t_j, ind_val_thread, w_pc, single >>

\* ------------------------------------------------------------ thread_find
\* lines 234-248
Validate ==
    /\ d_pc = "check"
    /\ IF InvalidVer(arg.ver, arg.i_step)
       THEN /\ ret' = -1
            /\ d_pc' = "returned"
       ELSE /\ ret' = ret
            /\ d_pc' = "init"
    /\ UNCHANGED << caller, d_t, nb_find, ind_val, thread_data_array, globals,
                    workers, w_pc, single >>

\* lines 250-257
InitVars ==
    /\ d_pc = "init"
    /\ U_threads' = U
    /\ val_threads' = arg.val
    /\ nb_find_thread' = Zeros
    /\ ind_val_thread' = Empties
    /\ d_pc' = "watch"
    /\ UNCHANGED << caller, d_t, nb_find, ind_val, ret, thread_data_array,
                    stop_threads, t_pc, t_i, t_mask, t_j, reads, w_pc, single >>

\* lines 259-263
StartWatch ==
    /\ d_pc = "watch"
    /\ w_pc' = IF arg.k >= 0 THEN "run" ELSE w_pc
    /\ d_pc' = "create"
    /\ d_t' = 0
    /\ UNCHANGED << caller, nb_find, ind_val, ret, thread_data_array, globals,
                    workers, single >>

\* where a worker stands when it reaches the head of a loop with index i
ScalarHead(i, i_end) == IF i <= i_end THEN "check" ELSE "done"
RemHead(i, i_end) == IF i <= i_end THEN "rem" ELSE "done"
VectHead(i, i_end) == IF i + 8 < i_end THEN "vcheck" ELSE RemHead(i, i_end)
LoopHead(ver, i, i_end) == IF ver = 0 THEN ScalarHead(i, i_end) ELSE VectHead(i, i_end)

\* One iteration of the loop of lines 268-275.  The new thread's prologue
\* (lines 151-159 or 176-186: its locals, malloc(0), the first loop test)
\* touches nothing another thread sees and is folded into its creation.
Create ==
    /\ d_pc = "create"
    /\ \E t \in {d_t}, data \in {Segment(d_t, arg.i_start, arg.i_end, arg.i_step)} :
           /\ thread_data_array' = [thread_data_array EXCEPT ![t] = data]
           /\ ind_val_thread' = [ind_val_thread EXCEPT ![t] = << >>]
           /\ t_i' = [t_i EXCEPT ![t] = data.i_start]
           /\ t_pc' = [t_pc EXCEPT ![t] = LoopHead(arg.ver, data.i_start, data.i_end)]
           /\ IF t + 1 < NB_THREADS
              THEN /\ d_t' = t + 1
                   /\ d_pc' = d_pc
                   /\ nb_find' = nb_find
              ELSE /\ d_t' = 0
                   /\ d_pc' = "join"
                   /\ nb_find' = 0
    /\ UNCHANGED << caller, ind_val, ret, globals, t_mask, t_j, reads, w_pc, single >>

\* The loop of lines 277-282.  pthread_join(threads[t]) returns once worker t
\* has exited, and nb_find_thread[t] is final from then on: the loop ends
\* when every worker has exited, with the sum of the final counters.  For a
\* worker whose pthread_create failed, threads[t] was never written: joining
\* it is undefined, and returning at once with an error is the outcome here
\* (JoinUnstarted is the other one).
Join ==
    /\ d_pc = "join"
    /\ \A t \in Threads : t_pc[t] \in {"done", "failed"}
    /\ nb_find' = Sum(nb_find_thread, NB_THREADS - 1)
    /\ d_t' = 0
    /\ d_pc' = "stop"
    /\ UNCHANGED << caller, ind_val, ret, thread_data_array, globals, workers,
                    w_pc, single >>

\* SetStop without the assignment of line 285
SetStop_Skipped ==
    /\ d_pc = "stop"
    /\ d_pc' = "concat"
    /\ UNCHANGED << caller, d_t, nb_find, ind_val, ret, thread_data_array,
                    globals, workers, w_pc, single >>

\* line 285
SetStop ==
    /\ d_pc = "stop"
    /\ stop_threads' = TRUE
    /\ d_pc' = "concat"
    /\ UNCHANGED << caller, d_t, nb_find, ind_val, ret, thread_data_array,
                    nb_find_thread, U_threads, val_threads, workers, w_pc, single >>

\* lines 287-300: concatenate the workers' buffers, drop the extra indices
Aggregate ==
    /\ d_pc = "concat"
    /\ LET all == Concat(ind_val_thread, nb_find_thread, 0)
       IN  IF arg.k >= 0 /\ nb_find > arg.k
           THEN /\ ind_val' = Take(all, arg.k)
                /\ nb_find' = arg.k
           ELSE /\ ind_val' = all
                /\ nb_find' = nb_find
    /\ d_pc' = "joinwatch"
    /\ UNCHANGED << caller, d_t, ret, thread_data_array, globals, workers, w_pc,
                    single >>

\* lines 301-304; the threads and the locals of thread_find are gone afterwards
Return ==
    /\ d_pc = "joinwatch"
    /\ arg.k >= 0 => w_pc \in {"done", "failed"}
    /\ ret' = nb_find
    /\ d_pc' = "returned"
    /\ w_pc' = "none"
    /\ t_pc' = Idle
    /\ t_i' = Zeros
    /\ ind_val_thread' = Empties
    /\ thread_data_array' = [t \in Threads |-> NoData]
    /\ nb_find' = 0
    /\ UNCHANGED << caller, d_t, ind_val, globals, t_mask, t_j, reads, single >>

\* ---------------------------------------------------------------- workers
\* what a read of U_threads[i] can yield
ReadVals(i) == IF i \in DOMAIN U_threads THEN {U_threads[i]} ELSE Vals

\* what _mm256_loadu_ps(U_threads + i) can yield, lane by lane
LaneLoads(i) == {l \in [0 .. 7 -> Vals] : \A b \in 0 .. 7 : l[b] \in ReadVals(i + b)}

\* scalar_thread_function, lines 159-162 and the loop step when nothing matches
ScalarCheck(t) ==
    /\ t_pc[t] = "check"
    /\ IF stop_threads
       THEN /\ t_pc' = [t_pc EXCEPT ![t] = "done"]
            /\ UNCHANGED << t_i, reads >>
       ELSE \E x \in ReadVals(t_i[t]) :
              /\ reads' = reads \cup {t_i[t]}
              /\ IF x = val_threads
                 THEN /\ t_pc' = [t_pc EXCEPT ![t] = "inc"]
                      /\ t_i' = t_i
                 ELSE LET i == t_i[t] + thread_data_array[t].i_step
                      IN  /\ t_i' = [t_i EXCEPT ![t] = i]
                          /\ t_pc' = [t_pc EXCEPT ![t] =
                                        ScalarHead(i, thread_data_array[t].i_end)]
    /\ UNCHANGED << caller, dispatch, globals, t_mask, t_j, ind_val_thread, w_pc,
                    single >>

\* line 163
ScalarInc(t) ==
    /\ t_pc[t] = "inc"
    /\ nb_find_thread' = [nb_find_thread EXCEPT ![t] = @ + 1]
    /\ t_pc' = [t_pc EXCEPT ![t] = "store"]
    /\ UNCHANGED << caller, dispatch, stop_threads, U_threads, val_threads, t_i,
                    t_mask, t_j, ind_val_thread, reads, w_pc, single >>

\* lines 164-165 and the loop step
ScalarStore(t) ==
    /\ t_pc[t] = "store"
    /\ ind_val_thread' = [ind_val_thread EXCEPT ![t] = Append(@, t_i[t])]
    /\ LET i == t_i[t] + thread_data_array[t].i_step
       IN  /\ t_i' = [t_i EXCEPT ![t] = i]
           /\ t_pc' = [t_pc EXCEPT ![t] = ScalarHead(i, thread_data_array[t].i_end)]
    /\ UNCHANGED << caller, dispatch, globals, t_mask, t_j, reads, w_pc, single >>

\* vect_thread_function, lines 186-190 and the loop step when the mask is 0
VectCheck(t) ==
    /\ t_pc[t] = "vcheck"
    /\ IF stop_threads
       THEN /\ t_pc' = [t_pc EXCEPT ![t] = "done"]
            /\ UNCHANGED << t_i, t_mask, t_j, reads >>
       ELSE \E l \in LaneLoads(t_i[t]) :
              LET mask == MoveMask(l, val_threads, 0)
                  i == t_i[t] + thread_data_array[t].i_step
              IN  /\ reads' = reads \cup (t_i[t] .. (t_i[t] + 7))
                  /\ IF mask # 0
                     THEN /\ t_mask' = [t_mask EXCEPT ![t] = mask]
                          /\ t_j' = [t_j EXCEPT ![t] = t_i[t]]
                          /\ t_pc' = [t_pc EXCEPT ![t] = "bits"]
                          /\ t_i' = t_i
                     ELSE /\ t_i' = [t_i EXCEPT ![t] = i]
                          /\ t_pc' = [t_pc EXCEPT ![t] =
                                        VectHead(i, thread_data_array[t].i_end)]
                          /\ UNCHANGED << t_mask, t_j >>
    /\ UNCHANGED << caller, dispatch, globals, ind_val_thread, w_pc, single >>

\* lines 192-198, up to and including the next set bit of the mask: the
\* iterations over its zero bits change only j and mask
VectBit(t) ==
    /\ t_pc[t] = "bits"
    /\ LET z == LowZeros(t_mask[t])
           j == t_j[t] + z
           mask == t_mask[t] \div Pow2(z + 1)
           i == t_i[t] + thread_data_array[t].i_step
       IN  /\ ind_val_thread' = [ind_val_thread EXCEPT ![t] = Append(@, j)]
           /\ nb_find_thread' = [nb_find_thread EXCEPT ![t] = @ + 1]
           /\ IF mask # 0
              THEN /\ t_mask' = [t_mask EXCEPT ![t] = mask]
                   /\ t_j' = [t_j EXCEPT ![t] = j + 1]
                   /\ UNCHANGED << t_pc, t_i >>
              ELSE /\ t_mask' = [t_mask EXCEPT ![t] = 0]
                   /\ t_j' = [t_j EXCEPT ![t] = 0]
                   /\ t_i' = [t_i EXCEPT ![t] = i]
                   /\ t_pc' = [t_pc EXCEPT ![t] =
                                 VectHead(i, thread_data_array[t].i_end)]
    /\ UNCHANGED << caller, dispatch, stop_threads, U_threads, val_threads, reads,
                    w_pc, single >>

\* lines 202-203 and the loop step when the element does not match
VectRem(t) ==
    /\ t_pc[t] = "rem"
    /\ \E x \in ReadVals(t_i[t]) :
          /\ reads' = reads \cup {t_i[t]}
          /\ IF x = val_threads
             THEN /\ t_pc' = [t_pc EXCEPT ![t] = "rinc"]
                  /\ t_i' = t_i
             ELSE /\ t_i' = [t_i EXCEPT ![t] = @ + 1]
                  /\ t_pc' = [t_pc EXCEPT ![t] =
                                RemHead(t_i[t] + 1, thread_data_array[t].i_end)]
    /\ UNCHANGED << caller, dispatch, globals, t_mask, t_j, ind_val_thread, w_pc,
                    single >>

\* line 204
VectRemInc(t) ==
    /\ t_pc[t] = "rinc"
    /\ nb_find_thread' = [nb_find_thread EXCEPT ![t] = @ + 1]
    /\ t_pc' = [t_pc EXCEPT ![t] = "rstore"]
    /\ UNCHANGED << caller, dispatch, stop_threads, U_threads, val_threads, t_i,
                    t_mask, t_j, ind_val_thread, reads, w_pc, single >>

\* lines 205-206 and the loop step
VectRemStore(t) ==
    /\ t_pc[t] = "rstore"
    /\ ind_val_thread' = [ind_val_thread EXCEPT ![t] = Append(@, t_i[t])]
    /\ t_i' = [t_i EXCEPT ![t] = @ + 1]
    /\ t_pc' = [t_pc EXCEPT ![t] = RemHead(t_i[t] + 1, thread_data_array[t].i_end)]
    /\ UNCHANGED << caller, dispatch, globals, t_mask, t_j, reads, w_pc, single >>

\* --------------------------------------------------------------- watchdog
\* WatchPoll that cancels as soon as the counters reach k
WatchPoll_AtThreshold ==
    /\ w_pc = "run"
    /\ IF stop_threads
       THEN /\ w_pc' = "done"
            /\ stop_threads' = stop_threads
       ELSE IF Sum(nb_find_thread, NB_THREADS - 1) >= arg.k
            THEN /\ stop_threads' = TRUE
                 /\ w_pc' = "done"
            ELSE UNCHANGED << w_pc, stop_threads >>
    /\ UNCHANGED << caller, dispatch, nb_find_thread, U_threads, val_threads,
                    workers, single >>

\* One round of the loop of watch_nb_find, lines 218-229.  The counters only
\* grow, so the sum the loop of lines 223-224 collects is one the counters
\* had or have at the comparison of line 225; a round that sees a smaller
\* sum than the present one is a round taken earlier.
WatchPoll ==
    /\ w_pc = "run"
    /\ IF stop_threads
       THEN /\ w_pc' = "done"
            /\ stop_threads' = stop_threads
       ELSE IF Sum(nb_find_thread, NB_THREADS - 1) > arg.k
            THEN /\ stop_threads' = TRUE
                 /\ w_pc' = "done"
            ELSE UNCHANGED << w_pc, stop_threads >>
    /\ UNCHANGED << caller, dispatch, nb_find_thread, U_threads, val_threads,
                    workers, single >>

\* ----------------------------------------------------------- specification
Worker(t) ==
    \/ ScalarCheck(t)
    \/ ScalarInc(t)
    \/ ScalarStore(t)
    \/ VectCheck(t)
    \/ VectBit(t)
    \/ VectRem(t)
    \/ VectRemInc(t)
    \/ VectRemStore(t)

Next ==
    \/ Call
    \/ Validate
    \/ InitVars
    \/ StartWatch
    \/ Create
    \/ Join
    \/ SetStop
    \/ Aggregate
    \/ Return
    \/ WatchPoll
    \/ \E t \in Threads : Worker(t)

Spec == Init /\ [][Next]_vars

\* ------------------------------------------------- the planning loop alone
\* The segment arithmetic of thread_find over a wider set of ranges and
\* steps than the threaded runs above can afford.
PlanMaxStart == 3
PlanMaxEnd == 24
PlanMaxStep == 5

PlanArgs == [i_start : 0 .. PlanMaxStart, i_end : 0 .. PlanMaxEnd,
             i_step : 1 .. PlanMaxStep, val : {0}, k : {-1}, ver : {0}]

InitPlan ==
    /\ U = MakeU({})
    /\ calls = 0
    /\ arg \in PlanArgs
    /\ prev = [valid |-> FALSE, arg |-> NoArg, ret |-> 0, ind |-> << >>]
    /\ d_pc = "plan"
    /\ d_t = 0
    /\ nb_find = 0
    /\ ind_val = << >>
    /\ ret = 0
    /\ thread_data_array = [t \in Threads |-> NoData]
    /\ stop_threads = FALSE
    /\ nb_find_thread = Zeros
    /\ U_threads = << >>
    /\ val_threads = 0
    /\ t_pc = Idle
    /\ t_i = Zeros
    /\ t_mask = Zeros
    /\ t_j = Zeros
    /\ ind_val_thread = Empties
    /\ w_pc = "none"
    /\ reads = {}
    /\ at_call = Snapshot
    /\ res_find = NoResult
    /\ res_vect = NoResult

\* one iteration of the loop of lines 268-275, the segment bounds only
Plan ==
    /\ d_pc = "plan"
    /\ \E data \in {Segment(d_t, arg.i_start, arg.i_end, arg.i_step)} :
          thread_data_array' = [thread_data_array EXCEPT ![d_t] = data]
    /\ IF d_t + 1 < NB_THREADS
       THEN /\ d_t' = d_t + 1
            /\ d_pc' = d_pc
       ELSE /\ d_t' = 0
            /\ d_pc' = "planned"
    /\ UNCHANGED << caller, nb_find, ind_val, ret, globals, workers, w_pc, single >>

NextPlan == Plan

SpecPlan == InitPlan /\ [][NextPlan]_vars

\* ------------------------------------------- the planning of large ranges
\* The planning loop over arrays of the sizes main works with (line 316: 1E9
\* items by default, any int from the command line), all of whose indices are
\* ints.
WideSizes == {1000, 250000000, 500000000, 1000000000, 2000000000}
WideArgs == [i_start : {0, 1}, i_end : {n - 1 : n \in WideSizes}, i_step : {1, 8},
             val : {0}, k : {-1}, ver : {0, 1}]

InitWide ==
    /\ U = MakeU({})
    /\ calls = 0
    /\ arg \in WideArgs
    /\ prev = [valid |-> FALSE, arg |-> NoArg, ret |-> 0, ind |-> << >>]
    /\ d_pc = "plan"
    /\ d_t = 0
    /\ nb_find = 0
    /\ ind_val = << >>
    /\ ret = 0
    /\ thread_data_array = [t \in Threads |-> NoData]
    /\ stop_threads = FALSE
    /\ nb_find_thread = Zeros
    /\ U_threads = << >>
    /\ val_threads = 0
    /\ t_pc = Idle
    /\ t_i = Zeros
    /\ t_mask = Zeros
    /\ t_j = Zeros
    /\ ind_val_thread = Empties
    /\ w_pc = "none"
    /\ reads = {}
    /\ at_call = Snapshot
    /\ res_find = NoResult
    /\ res_vect = NoResult

\* an iteration of the loop of lines 268-275 whose product overflows, in a
\* build that traps on signed overflow
PlanTraps ==
    /\ d_pc = "plan"
    /\ \/ MulOverflows(d_t, Strides(arg.i_start, arg.i_end, arg.i_step))
       \/ MulOverflows(d_t + 1, Strides(arg.i_start, arg.i_end, arg.i_step))
    /\ d_pc' = "crashed"
    /\ UNCHANGED << caller, d_t, nb_find, ind_val, ret, thread_data_array, globals,
                    workers, w_pc, single >>

NextWide ==
    \/ Plan
    \/ PlanTraps

SpecWide == InitWide /\ [][NextWide]_vars

\* ------------------------------------------- the single-threaded matchers
\* find and vect_find called one after the other on the same array, as main
\* does (lines 328 and 342), over arrays long enough to hold a vector block.
MatchLen == 10

\* the target, 0 (+0.0), INT_MIN, and -1 (all bits set, a NaN)
MatchVals == {5, 0, MinInt, -1}
MatchSteps == {3, 8, 16}

\* 1 everywhere but at the positions of P, which hold x
MatchU(P, x) == [i \in 0 .. (MatchLen - 1) |-> IF i \in P THEN x ELSE 1]
MatchArrays ==
    {MatchU(P, x) : P \in {Q \in SUBSET (0 .. (MatchLen - 1)) : Cardinality(Q) <= 2},
                    x \in MatchVals}

MatchArgs == [i_start : Starts, i_end : 0 .. (MatchLen - 1), i_step : MatchSteps,
              val : MatchVals, k : {-1}, ver : {0}]

InitMatch ==
    /\ U \in MatchArrays
    /\ calls = 0
    /\ arg \in MatchArgs
    /\ prev = [valid |-> FALSE, arg |-> NoArg, ret |-> 0, ind |-> << >>]
    /\ d_pc = "main_find"
    /\ d_t = 0
    /\ nb_find = 0
    /\ ind_val = << >>
    /\ ret = 0
    /\ thread_data_array = [t \in Threads |-> NoData]
    /\ stop_threads = FALSE
    /\ nb_find_thread = Zeros
    /\ U_threads = << >>
    /\ val_threads = 0
    /\ t_pc = Idle
    /\ t_i = Zeros
    /\ t_mask = Zeros
    /\ t_j = Zeros
    /\ ind_val_thread = Empties
    /\ w_pc = "none"
    /\ reads = {}
    /\ at_call = Snapshot
    /\ res_find = NoResult
    /\ res_vect = NoResult

\* nb_find = find(U, i_start, i_end, i_step, val, ind_val)
RunFind ==
    /\ d_pc = "main_find"
    /\ LET ind == find(U, arg.i_start, arg.i_end, arg.i_step, arg.val)
       IN  res_find' = [ret |-> Len(ind), ind |-> ind]
    /\ d_pc' = "main_vect"
    /\ UNCHANGED << caller, d_t, nb_find, ind_val, ret, thread_data_array, globals,
                    workers, w_pc, res_vect >>

\* nb_find = vect_find(U, i_start, i_end, i_step, val, ind_val)
RunVect ==
    /\ d_pc = "main_vect"
    /\ res_vect' = vect_find(U, arg.i_start, arg.i_end, arg.i_step, arg.val)
    /\ d_pc' = "main_done"
    /\ UNCHANGED << caller, d_t, nb_find, ind_val, ret, thread_data_array, globals,
                    workers, w_pc, res_find >>

NextMatch ==
    \/ RunFind
    \/ RunVect

SpecMatch == InitMatch /\ [][NextMatch]_vars

\* ---------------------------------------------------- the step validation
\* vect_find and then thread_find called with the same range and step, as
\* main does (lines 342 and 356), over steps of either sign and over ranges
\* shorter than a vector block, for which both loops of vect_find end.
StepSteps == {-8, 0, 3, 8}
StepArgs == [i_start : Starts, i_end : Ends, i_step : StepSteps, val : Targets,
             k : {-1}, ver : {1}]

InitStep ==
    /\ U \in Arrays
    /\ calls = 0
    /\ arg \in StepArgs
    /\ prev = [valid |-> FALSE, arg |-> NoArg, ret |-> 0, ind |-> << >>]
    /\ d_pc = "main_vect"
    /\ d_t = 0
    /\ nb_find = 0
    /\ ind_val = << >>
    /\ ret = 0
    /\ thread_data_array = [t \in Threads |-> NoData]
    /\ stop_threads = FALSE
    /\ nb_find_thread = Zeros
    /\ U_threads = << >>
    /\ val_threads = 0
    /\ t_pc = Idle
    /\ t_i = Zeros
    /\ t_mask = Zeros
    /\ t_j = Zeros
    /\ ind_val_thread = Empties
    /\ w_pc = "none"
    /\ reads = {}
    /\ at_call = Snapshot
    /\ res_find = NoResult
    /\ res_vect = NoResult

\* nb_find = thread_find(U, i_start, i_end, i_step, val, ind_val, -1, 1): entry
CallThreadFind ==
    /\ d_pc = "main_done"
    /\ calls' = calls + 1
    /\ at_call' = Snapshot
    /\ d_pc' = "check"
    /\ UNCHANGED << U, arg, prev, d_t, nb_find, ind_val, ret, thread_data_array,
                    globals, workers, w_pc, single >>

NextStep ==
    \/ RunVect
    \/ CallThreadFind
    \/ Validate

SpecStep == InitStep /\ [][NextStep]_vars

\* ------------------------------------------------- one call, scheduled fairly
\* One thread_find call from its entry to its return.  The flag may be left
\* true by an earlier call.  The kernel's scheduler lets every thread that can
\* take a step take one eventually: weak fairness for the thread running
\* thread_find, for each worker and for the watchdog.
LiveMaxEnd == 2
LiveArrays == {MakeU(P) : P \in SUBSET (0 .. LiveMaxEnd)}
LiveArgs == [i_start : {0}, i_end : {LiveMaxEnd - 1, LiveMaxEnd}, i_step : Steps,
             val : Targets, k : {-1, 0, 1}, ver : Vers]

InitLive ==
    /\ U \in LiveArrays
    /\ calls = 1
    /\ arg \in LiveArgs
    /\ prev = [valid |-> FALSE, arg |-> NoArg, ret |-> 0, ind |-> << >>]
    /\ d_pc = "check"
    /\ d_t = 0
    /\ nb_find = 0
    /\ ind_val = << >>
    /\ ret = 0
    /\ thread_data_array = [t \in Threads |-> NoData]
    /\ stop_threads \in BOOLEAN
    /\ nb_find_thread = Zeros
    /\ U_threads = << >>
    /\ val_threads = 0
    /\ t_pc = Idle
    /\ t_i = Zeros
    /\ t_mask = Zeros
    /\ t_j = Zeros
    /\ ind_val_thread = Empties
    /\ w_pc = "none"
    /\ reads = {}
    /\ at_call = Snapshot
    /\ res_find = NoResult
    /\ res_vect = NoResult

\* the steps of the thread that runs thread_find
Dispatcher ==
    \/ Validate
    \/ InitVars
    \/ StartWatch
    \/ Create
    \/ Join
    \/ SetStop
    \/ Aggregate
    \/ Return

NextLive ==
    \/ Dispatcher
    \/ WatchPoll
    \/ \E t \in Threads : Worker(t)

Fairness ==
    /\ WF_vars(Dispatcher)
    /\ WF_vars(WatchPoll)
    /\ \A t \in Threads : WF_vars(Worker(t))

SpecLive == InitLive /\ [][NextLive]_vars /\ Fairness

\* ------------------------------------------------ thread creation failing
\* One thread_find call in which pthread_create may fail (EAGAIN).  The code
\* never looks at its result (lines 262 and 274): the handle stays unwritten
\* and thread_find carries on.
ExhaustArgs == [i_start : {0}, i_end : {LiveMaxEnd}, i_step : Steps,
                val : Targets, k : {-1, 1}, ver : {0, 1}]

InitExhaust ==
    /\ U \in LiveArrays
    /\ calls = 1
    /\ arg \in ExhaustArgs
    /\ prev = [valid |-> FALSE, arg |-> NoArg, ret |-> 0, ind |-> << >>]
    /\ d_pc = "check"
    /\ d_t = 0
    /\ nb_find = 0
    /\ ind_val = << >>
    /\ ret = 0
    /\ thread_data_array = [t \in Threads |-> NoData]
    /\ stop_threads = FALSE
    /\ nb_find_thread = Zeros
    /\ U_threads = << >>
    /\ val_threads = 0
    /\ t_pc = Idle
    /\ t_i = Zeros
    /\ t_mask = Zeros
    /\ t_j = Zeros
    /\ ind_val_thread = Empties
    /\ w_pc = "none"
    /\ reads = {}
    /\ at_call = Snapshot
    /\ res_find = NoResult
    /\ res_vect = NoResult

\* lines 259-263 when pthread_create fails: no watchdog runs
StartWatchFails ==
    /\ d_pc = "watch"
    /\ arg.k >= 0
    /\ w_pc' = "failed"
    /\ d_pc' = "create"
    /\ d_t' = 0
    /\ UNCHANGED << caller, nb_find, ind_val, ret, thread_data_array, globals,
                    workers, single >>

\* one iteration of the loop of lines 268-275 when pthread_create fails: the
\* segment is written, no worker runs
CreateFails ==
    /\ d_pc = "create"
    /\ \E data \in {Segment(d_t, arg.i_start, arg.i_end, arg.i_step)} :
          thread_data_array' = [thread_data_array EXCEPT ![d_t] = data]
    /\ t_pc' = [t_pc EXCEPT ![d_t] = "failed"]
    /\ IF d_t + 1 < NB_THREADS
       THEN /\ d_t' = d_t + 1
            /\ d_pc' = d_pc
            /\ nb_find' = nb_find
       ELSE /\ d_t' = 0
            /\ d_pc' = "join"
            /\ nb_find' = 0
    /\ UNCHANGED << caller, ind_val, ret, globals, t_i, t_mask, t_j, ind_val_thread,
                    reads, w_pc, single >>

\* pthread_join on a handle that was never written (lines 280 and 301) is
\* undefined: besides returning at once (Join, Return) the process may fault
\* or block for good
JoinUnstarted ==
    /\ \/ d_pc = "join" /\ \E t \in Threads : t_pc[t] = "failed"
       \/ d_pc = "joinwatch" /\ w_pc = "failed"
    /\ d_pc' = "crashed"
    /\ UNCHANGED << caller, d_t, nb_find, ind_val, ret, thread_data_array, globals,
                    workers, w_pc, single >>

NextExhaust ==
    \/ NextLive
    \/ StartWatchFails
    \/ CreateFails
    \/ JoinUnstarted

SpecExhaust == InitExhaust /\ [][NextExhaust]_vars

\* ------------------------------------------------------------------ claims
\* a thread_find call has returned a result (not the failure value)
Returned == d_pc = "returned" /\ ret >= 0

\* the single-threaded scan of the requested range with the called strategy
SingleScan ==
    IF arg.ver = 0
    THEN find(U, arg.i_start, arg.i_end, arg.i_step, arg.val)
    ELSE vect_find(U, arg.i_start, arg.i_end, arg.i_step, arg.val).ind

\* the number of matching indices of the requested range
RawMatches == Len(SingleScan)

StrictlyIncreasing(s) == \A n \in 1 .. (Len(s) - 1) : s[n] < s[n + 1]

\* a worker has left its loop on the cancellation flag, before its segment's end
Cancelled(t) ==
    /\ t_pc[t] = "done"
    /\ t_i[t] <= thread_data_array[t].i_end

\* C1: a thread_find call with threshold k >= 0 that starts with the
\* cancellation flag false returns count <= k, count = k when the range holds
\* at least k matching indices, and count = the number of matching indices
\* when it holds fewer than k.
C1_ThresholdCount ==
    (Returned /\ arg.k >= 0 /\ ~at_call.stop_threads)
        => /\ ret <= arg.k
           /\ RawMatches >= arg.k => ret = arg.k
           /\ RawMatches < arg.k => ret = RawMatches

\* C2: a thresholded call (k >= 0) on a range holding at least k matches
\* returns the k smallest matching indices of the range.
C2_FirstKMatches ==
    (Returned /\ arg.k >= 0 /\ RawMatches >= arg.k)
        => ind_val = Take(SingleScan, arg.k)

\* C3: thread_find with threshold -1 returns the same set of indices as the
\* single-threaded scan of the same strategy with the same start, end and step.
C3_FullScanEquivalence ==
    (Returned /\ arg.k = -1) => Range(ind_val) = Range(SingleScan)

\* C4: for a step that is a positive multiple of 8, vect_find returns the same
\* set of indices as find called with the same start, end and step.
C4_VectEqualsScalar ==
    (d_pc = "main_done" /\ arg.i_step > 0 /\ arg.i_step % 8 = 0)
        => Range(res_vect.ind) = Range(res_find.ind)

\* C5: a successful thread_find call returns exactly count entries, each an
\* index of the requested range [i_start, i_end] whose element is the target.
C5_ValidIndices ==
    Returned
        => /\ Len(ind_val) = ret
           /\ \A n \in 1 .. Len(ind_val) :
                 /\ ind_val[n] \in arg.i_start .. arg.i_end
                 /\ ind_val[n] \in DOMAIN U
                 /\ U[ind_val[n]] = arg.val

\* C6: the index sequence thread_find hands back is strictly increasing, for
\* both strategies, with or without a threshold, cancelled workers or not.
C6_Ascending ==
    d_pc \in {"joinwatch", "returned"} => StrictlyIncreasing(ind_val)

\* C6 witness: a thresholded call has aggregated at least two indices after
\* the watchdog cancelled a worker before the end of its segment
C6_Witness ==
    /\ d_pc = "joinwatch"
    /\ Len(ind_val) >= 2
    /\ arg.k >= 0
    /\ \E t \in Threads : Cancelled(t)

\* C7: two consecutive thread_find calls with identical inputs on an unchanged
\* array return identical counts and identical index sequences.
C7_RepeatedCall ==
    (Returned /\ prev.valid /\ prev.arg = arg /\ prev.ret >= 0)
        => (ret = prev.ret /\ ind_val = prev.ind)

\* the stepped index set {s, s + step, ...} within [s, e]
Stepped(s, e, step) == {i \in s .. e : (i - s) % step = 0}
SegStepped(t) ==
    Stepped(thread_data_array[t].i_start, thread_data_array[t].i_end,
            thread_data_array[t].i_step)

\* C8: for i_start <= i_end and step >= 1 the 8 segments have pairwise
\* disjoint stepped index sets whose union is the stepped index set of
\* [i_start, i_end], and their stride counts differ by at most one.
C8_Partition ==
    (d_pc = "planned" /\ arg.i_start <= arg.i_end /\ arg.i_step >= 1)
        => /\ \A t, u \in Threads : t # u => SegStepped(t) \cap SegStepped(u) = {}
           /\ UNION {SegStepped(t) : t \in Threads}
                 = Stepped(arg.i_start, arg.i_end, arg.i_step)
           /\ \A t, u \in Threads :
                 Cardinality(SegStepped(t)) - Cardinality(SegStepped(u)) <= 1

\* C8 witness: a planned range that starts above 0, with a step above 1 and a
\* stride count that is no multiple of 8, so that some segments hold one
\* stride and others two
C8_Witness ==
    /\ d_pc = "planned"
    /\ arg.i_start > 0
    /\ arg.i_start <= arg.i_end
    /\ arg.i_step > 1
    /\ Strides(arg.i_start, arg.i_end, arg.i_step) % NB_THREADS # 0
    /\ \E t, u \in Threads : /\ Cardinality(SegStepped(t)) = 1
                             /\ Cardinality(SegStepped(u)) = 2

\* C9: thread_find on an empty range (i_start > i_end), with a valid strategy
\* and step, returns count 0 and no indices, and no worker reads the array.
C9_EmptyRange ==
    (d_pc = "returned" /\ arg.i_start > arg.i_end
        /\ ~InvalidVer(arg.ver, arg.i_step))
        => (ret = 0 /\ ind_val = << >> /\ reads = {})

\* the arguments C10 speaks of: an unrecognized strategy, or the vectorized
\* strategy with a step that is no multiple of 8
C10_BadArguments ==
    \/ arg.ver \notin {0, 1}
    \/ arg.ver = 1 /\ arg.i_step % 8 # 0

\* C10: called with such arguments, thread_find returns -1 at once: no thread
\* is started, and the progress counters, the cancellation flag, the shared
\* array and target globals and the caller's *ind_val stay as they were.
C10_InvalidArguments ==
    [][(d_pc = "check" /\ C10_BadArguments)
          => /\ d_pc' = "returned"
             /\ ret' = -1
             /\ UNCHANGED << globals, ind_val, workers, w_pc, thread_data_array >>]_vars

\* C10 witness: a call with the vectorized strategy and a step that is no
\* multiple of 8 has failed after an earlier search left counters and flag set
C10_Witness ==
    /\ d_pc = "returned"
    /\ ret = -1
    /\ arg.ver = 1
    /\ arg.i_step % 8 # 0
    /\ prev.valid
    /\ prev.ret > 0
    /\ stop_threads
    /\ Sum(nb_find_thread, NB_THREADS - 1) > 0
    /\ ind_val = prev.ind

\* a step the vectorized matcher may be called with: a positive multiple of 8
PositiveMultipleOf8(i_step) == i_step > 0 /\ i_step % 8 = 0

\* C11: with the vectorized matcher (vect_find, or thread_find with ver 1) a
\* step that is no positive multiple of 8 (0 and the negative multiples of 8
\* included) fails validation: the call returns -1 and scans nothing.
C11_StepValidation ==
    ~PositiveMultipleOf8(arg.i_step)
        => /\ d_pc = "main_done" => (res_vect.ret = -1 /\ res_vect.ind = << >>)
           /\ arg.ver = 1 => d_pc # "init"

\* C12: under fair scheduling a thread_find call with valid arguments returns;
\* every worker started exits, and a watchdog started (k >= 0) exits, at the
\* latest on the flag the dispatcher sets after joining the workers, and has
\* exited when thread_find returns.
C12_Termination ==
    /\ (d_pc = "check") ~> (d_pc = "returned")
    /\ \A t \in Threads : (t_pc[t] \notin {"none", "done"}) ~> (t_pc[t] = "done")
    /\ (w_pc = "run") ~> (w_pc = "done")
    /\ [][(d_pc = "joinwatch" /\ d_pc' = "returned" /\ arg.k >= 0)
             => w_pc = "done"]_vars

\* C12 witness: a thresholded call that started with the flag false has
\* returned matches without the counters ever exceeding k: the watchdog has
\* left on the flag set by the dispatcher
C12_Witness ==
    /\ d_pc = "returned"
    /\ arg.k >= 0
    /\ ~at_call.stop_threads
    /\ ret > 0
    /\ Sum(nb_find_thread, NB_THREADS - 1) <= arg.k
    /\ stop_threads

\* starting the watchdog or a worker has failed in the running call
StartFailed == w_pc = "failed" \/ \E t \in Threads : t_pc[t] = "failed"

\* C13: once starting a worker or the watchdog has failed, the only way on for
\* thread_find is to return a failure value of its own (neither a count nor
\* the -1 of invalid arguments): it joins no thread, aggregates nothing and
\* returns no results.
C13_StartFailure ==
    [][(StartFailed /\ d_pc' # d_pc) => (d_pc' = "returned" /\ ret' < -1)]_vars

\* C14: when thread_find has initialized its variables and is about to start
\* the watchdog and the workers, all 8 progress counters are 0 and the
\* cancellation flag is false, whatever earlier calls did.
C14_ResetAtStart ==
    d_pc \in {"watch", "create"} /\ d_t = 0
        => (nb_find_thread = Zeros /\ ~stop_threads)

\* a worker has left its loop because its index passed the end of its segment
Exhausted(t) ==
    /\ t_pc[t] = "done"
    /\ t_i[t] > thread_data_array[t].i_end

\* C15: in a call that starts with the flag false, the flag turns true before
\* the workers are joined only in a call with k >= 0 whose watchdog has read
\* a counter sum greater than k; with k < 0 there is no watchdog and every
\* worker that has exited has exhausted its segment.
C15_Cancellation ==
    /\ [][(~stop_threads /\ stop_threads' /\ d_pc # "stop")
             => /\ arg.k >= 0
                /\ w_pc = "run"
                /\ Sum(nb_find_thread, NB_THREADS - 1) > arg.k]_vars
    /\ [](arg.k < 0 /\ ~at_call.stop_threads /\ d_pc \notin {"idle", "returned"}
             => /\ w_pc = "none"
                /\ d_pc \in {"check", "init", "watch", "create", "join"}
                       => ~stop_threads
                /\ \A t \in Threads : t_pc[t] = "done" => Exhausted(t))

\* C15 witness: the watchdog of a call that started with the flag false has
\* set the flag while a worker was still running, and a worker has been
\* cancelled before the end of its segment
C15_Witness ==
    /\ d_pc = "join"
    /\ ~at_call.stop_threads
    /\ stop_threads
    /\ arg.k >= 0
    /\ w_pc = "done"
    /\ Sum(nb_find_thread, NB_THREADS - 1) = arg.k + 1
    /\ \E t \in Threads : Cancelled(t)
    /\ \E t \in Threads : t_pc[t] \notin {"none", "done"}

\* worker t stands at the head of a loop iteration: the scalar loop, the block
\* loop or the remainder loop of the vectorized strategy
AtLoopHead(t) == t_pc[t] \in {"check", "vcheck", "rem"}

\* C16: a worker tests the cancellation flag at the head of every element
\* step (scalar loop and vectorized remainder) and of every vector block: a
\* step taken from there while the flag is true is the worker's exit, without
\* a read of the array; and a worker that has exited leaves its counter and
\* its buffer as they are.
C16_FlagBeforeEveryStep ==
    [][\A t \in Threads :
          /\ (stop_threads /\ AtLoopHead(t)
                  /\ << t_pc[t], t_i[t] >>' # << t_pc[t], t_i[t] >>)
                => (t_pc'[t] = "done" /\ t_i'[t] = t_i[t] /\ reads' = reads)
          /\ (t_pc[t] = "done" /\ t_pc'[t] = "done")
                => /\ nb_find_thread'[t] = nb_find_thread[t]
                   /\ ind_val_thread'[t] = ind_val_thread[t]]_vars

\* the threads of the running call exist: from the first pthread_create to
\* the return of thread_find
ThreadsLive == d_pc \in {"create", "join", "stop", "concat", "joinwatch"}

\* C17: a worker's progress counter is increased only after the index has
\* been written to its buffer: while the threads of a call exist, counter[t]
\* is at most the number of indices worker t has stored, for both strategies;
\* and a counter never decreases after the initialization of the call.
C17_CounterAfterStore ==
    /\ [](ThreadsLive
             => \A t \in Threads : nb_find_thread[t] <= Len(ind_val_thread[t]))
    /\ [][d_pc # "init"
             => \A t \in Threads : nb_find_thread'[t] >= nb_find_thread[t]]_vars

\* C18: in a thread_find call with 0 <= i_start <= i_end < length and a valid
\* step, every array index a worker reads (scalar steps, 8-element loads,
\* remainder steps) lies in [i_start, i_end], and the end bound of the last
\* segment does not exceed i_end.
C18_ReadsInRange ==
    (/\ 0 <= arg.i_start
     /\ arg.i_start <= arg.i_end
     /\ arg.i_end < ULen
     /\ arg.i_step > 0
     /\ ~InvalidVer(arg.ver, arg.i_step))
        => /\ reads \subseteq arg.i_start .. arg.i_end
           /\ d_pc \in {"join", "stop", "concat", "joinwatch"}
                 => thread_data_array[NB_THREADS - 1].i_end <= arg.i_end

\* the number of segments planned so far
Planned == IF d_pc = "plan" THEN d_t ELSE IF d_pc = "planned" THEN NB_THREADS ELSE 0

\* C19: for a range whose indices fit in an int, the products t * M and
\* (t + 1) * M behind the bounds of every planned segment, with
\* M = (i_end - i_start) / i_step + 1, stay within the range of int.
C19_NoOverflow ==
    \A t \in Threads :
       t < Planned
          => /\ ~MulOverflows(t, Strides(arg.i_start, arg.i_end, arg.i_step))
             /\ ~MulOverflows(t + 1, Strides(arg.i_start, arg.i_end, arg.i_step))

\* bit b of a mask
Bit(mask, b) == (mask \div Pow2(b)) % 2

\* the mask vect_find computes for the block at its first offset
FirstMask == MoveMask([b \in 0 .. 7 |-> U[arg.i_start + b]], arg.val, 0)

\* C20: in the vectorized matcher, bit b of the mask of the block at offset i
\* is set exactly when U[i + b] and the target are the same 32-bit integer
\* (bit patterns of NaNs and of signed zeros included), and the block appends
\* exactly the indices i + b of the set bits, in increasing b, as many as
\* count_ones_table[mask].
C20_MaskIsIntEquality ==
    (d_pc = "main_done" /\ res_vect.ret >= 0 /\ arg.i_start + 8 < arg.i_end)
        => LET n == count_ones(FirstMask)
               hits == Take(res_vect.ind, n)
           IN  /\ \A b \in 0 .. 7 :
                     Bit(FirstMask, b) = 1 <=> U[arg.i_start + b] = arg.val
               /\ Len(hits) = n
               /\ StrictlyIncreasing(hits)
               /\ Range(hits) = {arg.i_start + b : b \in {c \in 0 .. 7 :
                                                            Bit(FirstMask, c) = 1}}
               /\ \A m \in (n + 1) .. Len(res_vect.ind) :
                     res_vect.ind[m] > arg.i_start + 7

====
